---------------------------- MODULE Spec2Model ----------------------------
(***************************************************************************)
(* A model of the deepfake data-preparation repository:                    *)
(*   utils.py         extend_rect_to_square, read_faces_from_video         *)
(*   prepare_data.py  get_train_data_lists, get_image_name_from_video_name,*)
(*                    save_faces_from_video,                               *)
(*                    extract_faces_from_videos_parallel,                  *)
(*                    save_faces_metadata_to_json, the __main__ flow       *)
(*   dali_dataset.py  repeat_labels, unwrap_frames_sequence,               *)
(*                    get_dali_dataset                                     *)
(*                                                                         *)
(* Five specifications share the variables; each one moves its own group   *)
(* of variables and leaves the others at their idle values:                *)
(*   Spec      the __main__ flow of prepare_data.py with its process pool  *)
(*   SpecSeq   successive runs of save_faces_from_video on one directory   *)
(*   SpecRect  extend_rect_to_square applied to bounded inputs             *)
(*   SpecRead  read_faces_from_video scanning one video                    *)
(*   SpecDali  one iteration of the dataset built by get_dali_dataset      *)
(***************************************************************************)
EXTENDS Integers, Sequences, FiniteSets, TLC

VARIABLES
    \* ---- extend_rect_to_square (SpecRect)
    rect_in,          \* the six arguments, or <<>>
    rect_out,         \* the returned 4-tuple, or <<>>
    \* ---- read_faces_from_video (SpecRead)
    rd_pc,            \* "idle" | "loop" | "after" | "returned" | "raised"
    rd_num_frames,    \* capture.get(CAP_PROP_FRAME_COUNT)
    rd_i,             \* the loop index i
    rd_faces_to_save, \* faces_to_save: the crops, each named by its frame index
    rd_log,           \* history: <<frame index, crop non-empty>> per detector call
    \* ---- get_dali_dataset (SpecDali)
    dl_pc,            \* "idle" | "iter" | "end"
    dl_labels,        \* the labels argument; video_file_paths are indexed alike
    dl_emitted,       \* number of sequences the video source stage has emitted
    dl_fbuf,          \* features_dataset.flat_map: frames left of the current sequence
    dl_lnext,         \* labels_dataset: index of the next label to repeat
    dl_lbuf,          \* labels_dataset.flat_map: copies left of the current label
    dl_out,           \* the (frame, label) pairs yielded so far
    \* ---- the face directory, shared by Spec and SpecSeq
    disk,             \* TRAIN_FACES_DIR: crop path -> times written (0: no file)
    \* ---- prepare_data.py __main__ (Spec)
    train_dir,        \* TRAIN_VIDEOS_DIR: the set of [chunk, name, label] video files
    pc,               \* position of the main flow
    video_paths,      \* the four arrays get_train_data_lists returns
    video_file_names,
    labels,
    groups,
    task,             \* per submitted path: the pool worker running save_faces_from_video
    faces_metadata,   \* extract_faces_from_videos_parallel: successful records
    broken_videos,    \* extract_faces_from_videos_parallel: broken paths
    printed_broken,   \* the broken count printed at line 142 (-1 before)
    broken_file,      \* BROKEN_VIDEOS_PATH (the JSON array)
    faces,            \* the array the parallel step returned
    split,            \* [faces_labels, train_idx, val_idx] of lines 183-188
    train_file,       \* FACES_TRAIN_METADATA_PATH (the JSON object)
    val_file,         \* FACES_VAL_METADATA_PATH (the JSON object)
    \* ---- successive runs of save_faces_from_video (SpecSeq)
    sq_run,           \* the run in progress
    sq_hist           \* history: the finished runs, oldest first

rectVars == <<rect_in, rect_out>>
readVars == <<rd_pc, rd_num_frames, rd_i, rd_faces_to_save, rd_log>>
daliVars == <<dl_pc, dl_labels, dl_emitted, dl_fbuf, dl_lnext, dl_lbuf, dl_out>>
mainVars == <<train_dir, pc, video_paths, video_file_names, labels, groups, task,
              faces_metadata, broken_videos, printed_broken, broken_file,
              faces, split, train_file, val_file>>
seqVars == <<sq_run, sq_hist>>
vars == <<rectVars, readVars, daliVars, disk, mainVars, seqVars>>

(***************************************************************************)
(* Program constants and bounds                                            *)
(***************************************************************************)
FRAMES_PER_VIDEO == 8
SAMPLE_STRIDE == 10

MaxCoord == 4
MaxFrames == 82
FrameWidth == 4
FrameHeight == 3
MaxDaliVideos == 3
MaxVideos == 2
MaxRuns == 3
POOL_SIZE == 9

Max2(a, b) == IF a >= b THEN a ELSE b
Min2(a, b) == IF a <= b THEN a ELSE b
Abs(a) == IF a >= 0 THEN a ELSE -a

(***************************************************************************)
(* utils.py: extend_rect_to_square                                         *)
(***************************************************************************)
\* lines 39-42: np.max([0, start]) and np.min([image size, end])
ClampDropped(start_x, start_y, end_x, end_y, image_width, image_height) ==
    <<start_x, start_y, end_x, end_y>>

ClampToImage(start_x, start_y, end_x, end_y, image_width, image_height) ==
    << Max2(0, start_x), Max2(0, start_y),
       Min2(image_width, end_x), Min2(image_height, end_y) >>

extend_rect_to_square(start_x, start_y, end_x, end_y, image_width, image_height) ==
    LET width == end_x - start_x
        height == end_y - start_y
    IN  IF width > height
        THEN LET difference == width - height
             IN  ClampToImage(start_x, start_y - (difference \div 2),
                              end_x, end_y + (difference \div 2),
                              image_width, image_height)
        ELSE LET difference == height - width
             IN  ClampToImage(start_x - (difference \div 2), start_y,
                              end_x + (difference \div 2), end_y,
                              image_width, image_height)

\* The extension of lines 29-38 before the clamp of lines 39-42.
ExtendedUnclamped(r) ==
    LET width == r[3] - r[1]
        height == r[4] - r[2]
        d == Abs(width - height) \div 2
    IN  IF width > height
        THEN <<r[1], r[2] - d, r[3], r[4] + d>>
        ELSE <<r[1] - d, r[2], r[3] + d, r[4]>>

\* Rectangles with end > start enclosed by the image, and the spec's example.
SpecExampleRect == <<10, 10, 30, 50, 100, 100>>

RectInputs ==
    { <<sx, sy, ex, ey, w, h>> :
        sx \in 0..MaxCoord, sy \in 0..MaxCoord, ex \in 0..MaxCoord,
        ey \in 0..MaxCoord, w \in 0..MaxCoord, h \in 0..MaxCoord }

EnclosedRect(r) ==
    /\ r[1] >= 0 /\ r[2] >= 0
    /\ r[3] > r[1] /\ r[4] > r[2]
    /\ r[5] >= r[3] /\ r[6] >= r[4]

RectIdle == rect_in = <<>> /\ rect_out = <<>>

RectInit ==
    /\ rect_in \in {r \in RectInputs : EnclosedRect(r)} \cup {SpecExampleRect}
    /\ rect_out = <<>>

RectCall ==
    /\ rect_in # <<>>
    /\ rect_out = <<>>
    /\ rect_out' = extend_rect_to_square(rect_in[1], rect_in[2], rect_in[3],
                                         rect_in[4], rect_in[5], rect_in[6])
    /\ UNCHANGED rect_in

(***************************************************************************)
(* utils.py: read_faces_from_video                                         *)
(***************************************************************************)
\* A detector box is given in tenths of a pixel (the detector returns floats);
\* int() of line 70 truncates toward zero.
IntOf(tenths) == IF tenths >= 0 THEN tenths \div 10 ELSE -((-tenths) \div 10)

\* numpy basic slicing a[s:e] of an axis of length n: negative bounds count
\* from the end, both are clipped to 0..n.
SliceBound(x, n) == IF x < 0 THEN Max2(0, x + n) ELSE Min2(x, n)
SliceLen(s, e, n) == Max2(0, SliceBound(e, n) - SliceBound(s, n))

\* np.argmax(confidences): the first index of the maximum (line 68).
ArgMax(confidences) ==
    CHOOSE k \in 1..Len(confidences) :
        /\ \A j \in 1..Len(confidences) : confidences[j] <= confidences[k]
        /\ \A j \in 1..(k - 1) : confidences[j] < confidences[k]

\* What detector.detect may return for one frame: boxes with confidences.
FaceA == [box |-> <<12, 8, 31, 22>>, conf |-> 9]     \* inside the frame
FaceB == [box |-> <<5, 5, 25, 29>>, conf |-> 5]      \* inside the frame
FaceOut == [box |-> <<52, 41, 75, 66>>, conf |-> 9]  \* beyond the frame
FaceThin == [box |-> <<21, 10, 29, 20>>, conf |-> 7] \* int() gives zero width
Detections ==
    { <<>>, <<FaceA>>, <<FaceB, FaceA>>, <<FaceOut>>, <<FaceB, FaceOut>>,
      <<FaceThin>>, <<FaceThin, FaceB>> }

\* Lines 67-79 for one detection result: TRUE iff a crop is appended.
CropShape(boxes) ==
    LET confidences == [k \in 1..Len(boxes) |-> boxes[k].conf]
        best == boxes[ArgMax(confidences)].box
        sq == extend_rect_to_square(IntOf(best[1]), IntOf(best[2]),
                                    IntOf(best[3]), IntOf(best[4]),
                                    FrameWidth, FrameHeight)
    IN  << SliceLen(sq[2], sq[4], FrameHeight), SliceLen(sq[1], sq[3], FrameWidth) >>

CropAppended(boxes) ==
    /\ Len(boxes) > 0
    /\ CropShape(boxes)[1] > 0
    /\ CropShape(boxes)[2] > 0

\* line 62: the frames the detector runs on
IsSampled(i) == i % SAMPLE_STRIDE = 0

\* lines 85-86: leave the loop once the list is full
BreakNever(faces_to_save) == FALSE

BreakNow(faces_to_save) == Len(faces_to_save) = FRAMES_PER_VIDEO

\* line 89: the assertion
AssertAlways(faces_to_save) == TRUE

AssertHolds(faces_to_save) == Len(faces_to_save) = FRAMES_PER_VIDEO

ReadIdle ==
    /\ rd_pc = "idle" /\ rd_num_frames = 0 /\ rd_i = 0
    /\ rd_faces_to_save = <<>> /\ rd_log = <<>>

ReadInit ==
    /\ rd_pc = "loop"
    /\ rd_num_frames \in 0..MaxFrames
    /\ rd_i = 0
    /\ rd_faces_to_save = <<>>
    /\ rd_log = <<>>

\* lines 60-62: an index that is not sampled is only grabbed
RdGrab ==
    /\ rd_pc = "loop"
    /\ rd_i < rd_num_frames
    /\ ~IsSampled(rd_i)
    /\ rd_i' = rd_i + 1
    /\ UNCHANGED <<rd_pc, rd_num_frames, rd_faces_to_save, rd_log>>

\* lines 62-86: a sampled index is retrieved and the detector runs on it
RdDetect ==
    /\ rd_pc = "loop"
    /\ rd_i < rd_num_frames
    /\ IsSampled(rd_i)
    /\ \E boxes \in Detections :
        LET appended == CropAppended(boxes)
            new == IF appended THEN Append(rd_faces_to_save, rd_i)
                   ELSE rd_faces_to_save
        IN  /\ rd_faces_to_save' = new
            /\ rd_log' = Append(rd_log, <<rd_i, appended>>)
            /\ IF BreakNow(new)
               THEN rd_pc' = "after" /\ rd_i' = rd_i
               ELSE rd_pc' = "loop" /\ rd_i' = rd_i + 1
    /\ UNCHANGED rd_num_frames

\* lines 63-64: retrieve yields no frame, or the detector raises; the
\* exception leaves read_faces_from_video
RdDetectRaises ==
    /\ rd_pc = "loop"
    /\ rd_i < rd_num_frames
    /\ IsSampled(rd_i)
    /\ rd_pc' = "raised"
    /\ rd_log' = Append(rd_log, <<rd_i, FALSE>>)
    /\ UNCHANGED <<rd_num_frames, rd_i, rd_faces_to_save>>

\* line 60: the range is exhausted
RdLoopEnd ==
    /\ rd_pc = "loop"
    /\ rd_i >= rd_num_frames
    /\ rd_pc' = "after"
    /\ UNCHANGED <<rd_num_frames, rd_i, rd_faces_to_save, rd_log>>

\* lines 88-90: release, assert, return
RdReturn ==
    /\ rd_pc = "after"
    /\ rd_pc' = IF AssertHolds(rd_faces_to_save) THEN "returned" ELSE "raised"
    /\ UNCHANGED <<rd_num_frames, rd_i, rd_faces_to_save, rd_log>>

(***************************************************************************)
(* dali_dataset.py: get_dali_dataset                                       *)
(***************************************************************************)
\* line 101: get_dali_dataset builds the pipeline with shuffle=True
PipelineShuffle == TRUE

\* lines 35-43: the video source stage. With random_shuffle it may emit the
\* sequence of any file next; without, it walks the file list in order.
ReaderNextVideo(shuffle, m, emitted) ==
    IF shuffle THEN 1..m ELSE {(emitted % m) + 1}

\* lines 45-63 and 66-73: the 8 extracted, resized frames of one sequence,
\* unwrapped in element order; a frame is named <<video index, frame index>>.
unwrap_frames_sequence(video) ==
    [k \in 1..FRAMES_PER_VIDEO |-> <<video, k - 1>>]

\* lines 76-83
repeat_labels_one_short(label) ==
    [i \in 1..(FRAMES_PER_VIDEO - 1) |-> label]

repeat_labels(label) ==
    [i \in 1..FRAMES_PER_VIDEO |-> label]

DaliIdle ==
    /\ dl_pc = "idle" /\ dl_labels = <<>> /\ dl_emitted = 0
    /\ dl_fbuf = <<>> /\ dl_lnext = 1 /\ dl_lbuf = <<>> /\ dl_out = <<>>

\* lines 94-119: the dataset is built for m videos with one label each
DaliInit ==
    /\ dl_pc = "iter"
    /\ \E m \in 1..MaxDaliVideos : dl_labels \in [1..m -> {0, 1}]
    /\ dl_emitted = 0
    /\ dl_fbuf = <<>>
    /\ dl_lnext = 1
    /\ dl_lbuf = <<>>
    /\ dl_out = <<>>

\* lines 104-112: the pipeline delivers one more sequence, which flat_map
\* unwraps into single frames
DlReaderEmit ==
    /\ dl_pc = "iter"
    /\ dl_fbuf = <<>>
    /\ \E video \in ReaderNextVideo(PipelineShuffle, Len(dl_labels), dl_emitted) :
          dl_fbuf' = unwrap_frames_sequence(video)
    /\ dl_emitted' = dl_emitted + 1
    /\ UNCHANGED <<dl_pc, dl_labels, dl_lnext, dl_lbuf, dl_out>>

\* lines 114-117: zip takes the next frame and the next repeated label
DlZipNext ==
    /\ dl_pc = "iter"
    /\ dl_fbuf # <<>>
    /\ dl_lbuf # <<>> \/ dl_lnext <= Len(dl_labels)
    /\ LET fresh == dl_lbuf = <<>>
           lbuf == IF fresh THEN repeat_labels(dl_labels[dl_lnext]) ELSE dl_lbuf
           lidx == IF fresh THEN dl_lnext ELSE dl_lnext - 1
       IN  /\ dl_out' = Append(dl_out, [frame |-> Head(dl_fbuf), label |-> Head(lbuf),
                                        label_index |-> lidx])
           /\ dl_lbuf' = Tail(lbuf)
           /\ dl_lnext' = IF fresh THEN dl_lnext + 1 ELSE dl_lnext
    /\ dl_fbuf' = Tail(dl_fbuf)
    /\ UNCHANGED <<dl_pc, dl_labels, dl_emitted>>

\* line 117: the label dataset is exhausted, which ends the zipped dataset
DlZipEnd ==
    /\ dl_pc = "iter"
    /\ dl_fbuf # <<>>
    /\ dl_lbuf = <<>>
    /\ dl_lnext > Len(dl_labels)
    /\ dl_pc' = "end"
    /\ dl_fbuf' = Tail(dl_fbuf)
    /\ UNCHANGED <<dl_labels, dl_emitted, dl_lnext, dl_lbuf, dl_out>>

(***************************************************************************)
(* prepare_data.py: paths and names                                        *)
(***************************************************************************)
\* A path is the sequence of its components; a file name is the sequence of
\* its characters, so that name[:-4] and the frame number format are computed.
PathJoin(dir, name) == Append(dir, name)
BaseName(path) == path[Len(path)]

\* config.TRAIN_VIDEOS_DIR (line 173) and config.TRAIN_FACES_DIR (line 95)
TRAIN_VIDEOS_DIR == <<"train_videos">>
TRAIN_FACES_DIR == <<"train_faces">>

\* The video file names a training directory may hold: two differ only in
\* the extension.
VideoNames ==
    { <<"a", ".", "m", "p", "4">>, <<"a", ".", "a", "v", "i">>,
      <<"b", ".", "m", "p", "4">> }

DigitChars == <<"0", "1", "2", "3", "4", "5", "6", "7", "8", "9">>

\* '{}'.format(n) for n >= 0
RECURSIVE FormatInt(_)
FormatInt(n) ==
    IF n < 10 THEN <<DigitChars[n + 1]>>
    ELSE FormatInt(n \div 10) \o <<DigitChars[(n % 10) + 1]>>

\* video_name[:-4]
StripLast4(video_name) ==
    IF Len(video_name) <= 4 THEN <<>>
    ELSE SubSeq(video_name, 1, Len(video_name) - 4)

\* lines 62-77, the branch with a frame number (the only one the flow uses)
get_image_name_from_video_name(video_name, frame_number) ==
    LET template ==
            IF frame_number > 99 THEN <<"_">>
            ELSE IF 9 < frame_number /\ frame_number < 100 THEN <<"_", "0">>
            ELSE <<"_", "0", "0">>
    IN  StripLast4(video_name) \o template \o FormatInt(frame_number)
            \o <<".", "p", "n", "g">>

(***************************************************************************)
(* prepare_data.py: save_faces_from_video, one step at a time              *)
(***************************************************************************)
\* lines 90-95
FacePaths(video_path) ==
    [i \in 1..FRAMES_PER_VIDEO |->
        PathJoin(TRAIN_FACES_DIR,
                 get_image_name_from_video_name(BaseName(video_path), i - 1))]

\* line 92: video_path.split('/')[-2]
GroupOfPath(video_path) == video_path[Len(video_path) - 1]

AllFacePaths ==
    { PathJoin(TRAIN_FACES_DIR, get_image_name_from_video_name(n, i)) :
        n \in VideoNames, i \in 0..(FRAMES_PER_VIDEO - 1) }

EmptyDisk == [p \in AllFacePaths |-> 0]

\* line 99: os.path.exists
PathExistsNever(d, path) == FALSE

PathExists(d, path) == d[path] > 0

NoResult == [type |-> "none", value |-> <<>>]

\* lines 103 and 115: the 3-tuple of a success
SuccessResult(video_path) ==
    [type |-> "tuple",
     value |-> <<FacePaths(video_path), video_path, GroupOfPath(video_path)>>]

\* An except branch that returns the 3-tuple of a success.
BrokenResultAsTuple(video_path) == SuccessResult(video_path)

\* lines 108 and 114: the bare path of a failure
BrokenResult(video_path) == [type |-> "str", value |-> video_path]

\* What the call of read_faces_from_video at line 106 can do: return the 8
\* crops (the detector ran), or raise with or without the detector having run.
ReadOutcomes ==
    { [ok |-> TRUE, detected |-> TRUE], [ok |-> FALSE, detected |-> TRUE],
      [ok |-> FALSE, detected |-> FALSE] }

NewRun(video_path) ==
    [video_path |-> video_path, pc |-> "check", idx |-> 0, detected |-> FALSE,
     raised |-> FALSE, result |-> NoResult]

\* lines 97-108: one os.path.exists of the loop; a missing file leaves the
\* loop and calls read_faces_from_video, the last existing file returns.
CheckStep(w, d, outcome) ==
    IF PathExists(d, FacePaths(w.video_path)[w.idx + 1])
    THEN IF w.idx + 1 = FRAMES_PER_VIDEO
         THEN [w EXCEPT !.pc = "returned", !.result = SuccessResult(w.video_path)]
         ELSE [w EXCEPT !.idx = w.idx + 1]
    ELSE IF outcome.ok
         THEN [w EXCEPT !.pc = "write", !.idx = 0, !.detected = TRUE]
         ELSE [w EXCEPT !.pc = "returned", !.detected = outcome.detected,
                        !.raised = TRUE, !.result = BrokenResult(w.video_path)]

\* lines 110-115: one cv2.imwrite of the loop, which writes or raises
WriteStep(w, wrote) ==
    IF ~wrote
    THEN [w EXCEPT !.pc = "returned", !.raised = TRUE,
                   !.result = BrokenResult(w.video_path)]
    ELSE IF w.idx + 1 = FRAMES_PER_VIDEO
         THEN [w EXCEPT !.pc = "returned", !.result = SuccessResult(w.video_path)]
         ELSE [w EXCEPT !.idx = w.idx + 1]

WriteDisk(w, d, wrote) ==
    IF wrote
    THEN [d EXCEPT ![FacePaths(w.video_path)[w.idx + 1]] = @ + 1]
    ELSE d

(***************************************************************************)
(* prepare_data.py: get_train_data_lists                                   *)
(***************************************************************************)
\* The video files a training directory may hold, each with the label its
\* chunk's metadata.json gives it: one name occurs in both chunks.
VideoFiles ==
    { [chunk |-> "c1", name |-> <<"a", ".", "m", "p", "4">>, label |-> "FAKE"],
      [chunk |-> "c1", name |-> <<"b", ".", "m", "p", "4">>, label |-> "REAL"],
      [chunk |-> "c2", name |-> <<"a", ".", "m", "p", "4">>, label |-> "REAL"],
      [chunk |-> "c2", name |-> <<"a", ".", "a", "v", "i">>, label |-> "FAKE"] }

\* A training directory: at most MaxVideos of these files.
TrainDirs == { S \in SUBSET VideoFiles : Cardinality(S) <= MaxVideos }

\* lines 38-57: os.listdir gives the chunks, and the files of a chunk, in any
\* order; the files of one chunk are visited together.
Listings(S) ==
    { l \in [1..Cardinality(S) -> S] :
        /\ \A i, j \in 1..Cardinality(S) : l[i] = l[j] => i = j
        /\ \A i, j, k \in 1..Cardinality(S) :
              (i < j /\ j < k /\ l[i].chunk = l[k].chunk) => l[j].chunk = l[i].chunk }

\* line 54
VideoPath(f) == PathJoin(PathJoin(TRAIN_VIDEOS_DIR, f.chunk), f.name)

\* line 55
LabelOf(f) == f.label = "FAKE"

Queued(video_path) == [NewRun(video_path) EXCEPT !.pc = "queued"]

NoSplit == [faces_labels |-> <<>>, train_idx |-> <<>>, val_idx |-> <<>>]

MainIdle ==
    /\ train_dir = {} /\ pc = "idle"
    /\ video_paths = <<>> /\ video_file_names = <<>> /\ labels = <<>> /\ groups = <<>>
    /\ task = <<>> /\ faces_metadata = <<>> /\ broken_videos = <<>>
    /\ printed_broken = -1 /\ broken_file = <<>> /\ faces = <<>>
    /\ split = NoSplit /\ train_file = <<>> /\ val_file = <<>>

MainInit ==
    /\ train_dir \in TrainDirs
    /\ pc = "start"
    /\ video_paths = <<>> /\ video_file_names = <<>> /\ labels = <<>> /\ groups = <<>>
    /\ task = <<>> /\ faces_metadata = <<>> /\ broken_videos = <<>>
    /\ printed_broken = -1 /\ broken_file = <<>> /\ faces = <<>>
    /\ split = NoSplit /\ train_file = <<>> /\ val_file = <<>>

\* lines 31-59 and 173
GetTrainDataLists ==
    /\ pc = "start"
    /\ \E l \in Listings(train_dir) :
          /\ video_paths' = [i \in 1..Len(l) |-> VideoPath(l[i])]
          /\ video_file_names' = [i \in 1..Len(l) |-> l[i].name]
          /\ labels' = [i \in 1..Len(l) |-> LabelOf(l[i])]
          /\ groups' = [i \in 1..Len(l) |-> l[i].chunk]
    /\ pc' = "listed"
    /\ UNCHANGED <<train_dir, task, faces_metadata, broken_videos,
                   printed_broken, broken_file, faces, split, train_file,
                   val_file, disk>>

(***************************************************************************)
(* prepare_data.py: extract_faces_from_videos_parallel                     *)
(***************************************************************************)
\* lines 125-131: the lists are created and every path is submitted to the pool
ExtractBegin ==
    /\ pc = "listed"
    /\ pc' = "extract"
    /\ task' = [t \in 1..Len(video_paths) |-> Queued(video_paths[t])]
    /\ UNCHANGED <<train_dir, video_paths, video_file_names, labels, groups,
                   faces_metadata, broken_videos, printed_broken, broken_file,
                   faces, split, train_file, val_file, disk>>

Running == {t \in DOMAIN task : task[t].pc \in {"check", "write"}}

\* line 129-131: a free pool process takes the next submitted path
PoolStart(t) ==
    /\ pc = "extract"
    /\ task[t].pc = "queued"
    /\ \A u \in 1..(t - 1) : task[u].pc # "queued"
    /\ Cardinality(Running) < POOL_SIZE
    /\ task' = [task EXCEPT ![t].pc = "check"]
    /\ UNCHANGED <<train_dir, pc, video_paths, video_file_names, labels, groups,
                   faces_metadata, broken_videos, printed_broken,
                   broken_file, faces, split, train_file, val_file, disk>>

\* lines 133-137
FaceRecord(saving_result) ==
    [faces |-> saving_result[1], video |-> BaseName(saving_result[2]),
     group |-> saving_result[3]]

\* line 132
IsTuple(result) == result.type = "tuple"

\* lines 131-140: imap_unordered hands each result to the parent's loop as
\* its task finishes, so the loop body runs in completion order. It touches
\* only the parent's two lists and is taken together with the return that
\* feeds it.
Collect(lists, w) ==
    IF w.pc # "returned" THEN lists
    ELSE IF IsTuple(w.result)
         THEN [lists EXCEPT !.faces_metadata = Append(@, FaceRecord(w.result.value))]
         ELSE [lists EXCEPT !.broken_videos = Append(@, w.result.value)]

ParentLists == [faces_metadata |-> faces_metadata, broken_videos |-> broken_videos]

\* lines 97-108 in a pool process
WorkerCheck(t) ==
    /\ pc = "extract"
    /\ task[t].pc = "check"
    /\ \E outcome \in ReadOutcomes :
          LET w == CheckStep(task[t], disk, outcome)
          IN  /\ task' = [task EXCEPT ![t] = w]
              /\ faces_metadata' = Collect(ParentLists, w).faces_metadata
              /\ broken_videos' = Collect(ParentLists, w).broken_videos
    /\ UNCHANGED <<train_dir, pc, video_paths, video_file_names, labels, groups,
                   printed_broken, broken_file,
                   faces, split, train_file, val_file, disk>>

\* lines 110-115 in a pool process
WorkerWrite(t) ==
    /\ pc = "extract"
    /\ task[t].pc = "write"
    /\ \E wrote \in BOOLEAN :
          LET w == WriteStep(task[t], wrote)
          IN  /\ task' = [task EXCEPT ![t] = w]
              /\ disk' = WriteDisk(task[t], disk, wrote)
              /\ faces_metadata' = Collect(ParentLists, w).faces_metadata
              /\ broken_videos' = Collect(ParentLists, w).broken_videos
    /\ UNCHANGED <<train_dir, pc, video_paths, video_file_names, labels, groups,
                   printed_broken, broken_file,
                   faces, split, train_file, val_file>>

\* lines 142-147 and 180: every result was seen; print, dump, return
ExtractEnd ==
    /\ pc = "extract"
    /\ Len(faces_metadata) + Len(broken_videos) = Len(video_paths)
    /\ printed_broken' = Len(broken_videos)
    /\ broken_file' = broken_videos
    /\ faces' = faces_metadata
    /\ pc' = "split"
    /\ UNCHANGED <<train_dir, video_paths, video_file_names, labels, groups, task,
                   faces_metadata, broken_videos, split, train_file,
                   val_file, disk>>

(***************************************************************************)
(* prepare_data.py: the split and the metadata files                       *)
(***************************************************************************)
Range(f) == {f[x] : x \in DOMAIN f}

\* dict(zip(keys, values)): a later pair replaces an earlier one of its key
RECURSIVE DictZip(_, _, _)
DictZip(keys, values, n) ==
    IF n = 0 THEN <<>>
    ELSE (keys[n] :> values[n]) @@ DictZip(keys, values, n - 1)

\* line 183
FacesGroupsByVideo(fs) == [i \in 1..Len(fs) |-> fs[i].video]

FacesGroups(fs) == [i \in 1..Len(fs) |-> fs[i].group]

\* lines 184-186
FacesLabels(fs) ==
    LET videos_labels_dict ==
            DictZip(video_file_names, labels,
                    Min2(Len(video_file_names), Len(labels)))
    IN  [i \in 1..Len(fs) |-> videos_labels_dict[fs[i].video]]

\* line 187: GroupShuffleSplit(n_splits=1, train_size=0.8) draws floor(0.8 n)
\* of the n distinct groups for training and leaves the others for validation;
\* it raises when that leaves no training group.
NumTrainGroups(n) == (8 * n) \div 10

TestGroupChoices(faces_groups) ==
    LET G == Range(faces_groups)
    IN  { T \in SUBSET G : Cardinality(T) = Cardinality(G) - NumTrainGroups(Cardinality(G)) }

\* line 188: the indices (ascending) of the samples whose group is in S
RECURSIVE IndicesIn(_, _, _)
IndicesIn(faces_groups, S, n) ==
    IF n = 0 THEN <<>>
    ELSE IF faces_groups[n] \in S
         THEN Append(IndicesIn(faces_groups, S, n - 1), n)
         ELSE IndicesIn(faces_groups, S, n - 1)

\* lines 183-189
Split ==
    /\ pc = "split"
    /\ LET faces_groups == FacesGroups(faces)
           G == Range(faces_groups)
       IN  IF NumTrainGroups(Cardinality(G)) = 0
           THEN /\ pc' = "aborted"
                /\ UNCHANGED split
           ELSE /\ pc' = "save_train"
                /\ \E T \in TestGroupChoices(faces_groups) :
                      split' = [faces_labels |-> FacesLabels(faces),
                                train_idx |-> IndicesIn(faces_groups, G \ T, Len(faces)),
                                val_idx |-> IndicesIn(faces_groups, T, Len(faces))]
    /\ UNCHANGED <<train_dir, video_paths, video_file_names, labels, groups, task,
                   faces_metadata, broken_videos, printed_broken,
                   broken_file, faces, train_file, val_file, disk>>

\* a[idx] for an index array
Pick(a, idx) == [k \in 1..Len(idx) |-> a[idx[k]]]

\* line 162: int(label)
IntOfBool(b) == IF b THEN 1 ELSE 0

\* lines 160-165: the entries of one record, written over what is there
RECURSIVE RecordEntries(_, _, _, _)
RecordEntries(dict, label, faces_batch, n) ==
    IF n = 0 THEN dict
    ELSE (BaseName(faces_batch.faces[n]) :>
              [label |-> IntOfBool(label), group |-> faces_batch.group,
               video |-> faces_batch.video])
         @@ RecordEntries(dict, label, faces_batch, n - 1)

\* lines 158-165: the records in order
RECURSIVE MetadataDict(_, _, _)
MetadataDict(ls, fs, n) ==
    IF n = 0 THEN <<>>
    ELSE RecordEntries(MetadataDict(ls, fs, n - 1), ls[n], fs[n], Len(fs[n].faces))

\* lines 150-168
save_faces_metadata_to_json(ls, fs) ==
    MetadataDict(ls, fs, Min2(Len(ls), Len(fs)))

\* lines 192-195
SaveTrain ==
    /\ pc = "save_train"
    /\ train_file' = save_faces_metadata_to_json(Pick(split.faces_labels, split.train_idx),
                                                 Pick(faces, split.train_idx))
    /\ pc' = "save_val"
    /\ UNCHANGED <<train_dir, video_paths, video_file_names, labels, groups, task,
                   faces_metadata, broken_videos, printed_broken,
                   broken_file, faces, split, val_file, disk>>

\* lines 196-201
SaveVal ==
    /\ pc = "save_val"
    /\ val_file' = save_faces_metadata_to_json(Pick(split.faces_labels, split.val_idx),
                                               Pick(faces, split.val_idx))
    /\ pc' = "done"
    /\ UNCHANGED <<train_dir, video_paths, video_file_names, labels, groups, task,
                   faces_metadata, broken_videos, printed_broken,
                   broken_file, faces, split, train_file, disk>>

(***************************************************************************)
(* Successive runs of save_faces_from_video on one face directory          *)
(***************************************************************************)
\* All crop files of a video are on disk.
AllCropsExist(d, video_path) ==
    \A k \in 1..FRAMES_PER_VIDEO : d[FacePaths(video_path)[k]] > 0

NoRun == [NewRun(<<>>) EXCEPT !.pc = "none"]

\* The videos the step is run on: two whose names differ only in the
\* extension and one more.
SeqVideos ==
    { PathJoin(PathJoin(TRAIN_VIDEOS_DIR, "c1"), <<"a", ".", "m", "p", "4">>),
      PathJoin(PathJoin(TRAIN_VIDEOS_DIR, "c2"), <<"a", ".", "a", "v", "i">>),
      PathJoin(PathJoin(TRAIN_VIDEOS_DIR, "c1"), <<"b", ".", "m", "p", "4">>) }

SeqIdle == sq_run = NoRun /\ sq_hist = <<>>

SeqInit == sq_run = NoRun /\ sq_hist = <<>> /\ disk = EmptyDisk

\* line 82: the step is called on a video
SeqCall ==
    /\ sq_run.pc = "none"
    /\ Len(sq_hist) < MaxRuns
    /\ \E v \in SeqVideos : sq_run' = NewRun(v)
    /\ UNCHANGED <<sq_hist, disk>>

\* lines 97-108
SeqCheck ==
    /\ sq_run.pc = "check"
    /\ \E outcome \in ReadOutcomes : sq_run' = CheckStep(sq_run, disk, outcome)
    /\ UNCHANGED <<sq_hist, disk>>

\* lines 110-115
SeqWrite ==
    /\ sq_run.pc = "write"
    /\ \E wrote \in BOOLEAN :
          /\ sq_run' = WriteStep(sq_run, wrote)
          /\ disk' = WriteDisk(sq_run, disk, wrote)
    /\ UNCHANGED sq_hist

\* lines 103, 108, 114, 115: the step returns to its caller
SeqReturn ==
    /\ sq_run.pc = "returned"
    /\ sq_hist' = Append(sq_hist,
                         [video_path |-> sq_run.video_path, result |-> sq_run.result,
                          detected |-> sq_run.detected,
                          complete |-> AllCropsExist(disk, sq_run.video_path)])
    /\ sq_run' = NoRun
    /\ UNCHANGED disk

(***************************************************************************)
(* Specifications                                                          *)
(***************************************************************************)
DiskIdle == disk = EmptyDisk

SpecRectInit == RectInit /\ ReadIdle /\ DaliIdle /\ DiskIdle /\ MainIdle /\ SeqIdle
SpecRectNext == RectCall /\ UNCHANGED <<readVars, daliVars, disk, mainVars, seqVars>>
SpecRect == SpecRectInit /\ [][SpecRectNext]_vars

SpecReadInit == ReadInit /\ RectIdle /\ DaliIdle /\ DiskIdle /\ MainIdle /\ SeqIdle
SpecReadNext ==
    \/ RdGrab /\ UNCHANGED <<rectVars, daliVars, disk, mainVars, seqVars>>
    \/ RdDetect /\ UNCHANGED <<rectVars, daliVars, disk, mainVars, seqVars>>
    \/ RdDetectRaises /\ UNCHANGED <<rectVars, daliVars, disk, mainVars, seqVars>>
    \/ RdLoopEnd /\ UNCHANGED <<rectVars, daliVars, disk, mainVars, seqVars>>
    \/ RdReturn /\ UNCHANGED <<rectVars, daliVars, disk, mainVars, seqVars>>
SpecRead == SpecReadInit /\ [][SpecReadNext]_vars

SpecDaliInit == DaliInit /\ RectIdle /\ ReadIdle /\ DiskIdle /\ MainIdle /\ SeqIdle
SpecDaliNext ==
    \/ DlReaderEmit /\ UNCHANGED <<rectVars, readVars, disk, mainVars, seqVars>>
    \/ DlZipNext /\ UNCHANGED <<rectVars, readVars, disk, mainVars, seqVars>>
    \/ DlZipEnd /\ UNCHANGED <<rectVars, readVars, disk, mainVars, seqVars>>
SpecDali == SpecDaliInit /\ [][SpecDaliNext]_vars

SpecSeqInit == SeqInit /\ RectIdle /\ ReadIdle /\ DaliIdle /\ MainIdle
SpecSeqNext ==
    \/ SeqCall /\ UNCHANGED <<rectVars, readVars, daliVars, mainVars>>
    \/ SeqCheck /\ UNCHANGED <<rectVars, readVars, daliVars, mainVars>>
    \/ SeqWrite /\ UNCHANGED <<rectVars, readVars, daliVars, mainVars>>
    \/ SeqReturn /\ UNCHANGED <<rectVars, readVars, daliVars, mainVars>>
SpecSeq == SpecSeqInit /\ [][SpecSeqNext]_vars

Init == MainInit /\ DiskIdle /\ RectIdle /\ ReadIdle /\ DaliIdle /\ SeqIdle
Next ==
    \/ GetTrainDataLists /\ UNCHANGED <<rectVars, readVars, daliVars, seqVars>>
    \/ ExtractBegin /\ UNCHANGED <<rectVars, readVars, daliVars, seqVars>>
    \/ \E t \in DOMAIN task : PoolStart(t) /\ UNCHANGED <<rectVars, readVars, daliVars, seqVars>>
    \/ \E t \in DOMAIN task : WorkerCheck(t) /\ UNCHANGED <<rectVars, readVars, daliVars, seqVars>>
    \/ \E t \in DOMAIN task : WorkerWrite(t) /\ UNCHANGED <<rectVars, readVars, daliVars, seqVars>>
    \/ ExtractEnd /\ UNCHANGED <<rectVars, readVars, daliVars, seqVars>>
    \/ Split /\ UNCHANGED <<rectVars, readVars, daliVars, seqVars>>
    \/ SaveTrain /\ UNCHANGED <<rectVars, readVars, daliVars, seqVars>>
    \/ SaveVal /\ UNCHANGED <<rectVars, readVars, daliVars, seqVars>>
Spec == Init /\ [][Next]_vars

(***************************************************************************)
(* Claims about extend_rect_to_square (SpecRect)                           *)
(***************************************************************************)
RectWidth(r) == r[3] - r[1]
RectHeight(r) == r[4] - r[2]

ContainedInImage(out, in) ==
    /\ 0 <= out[1] /\ out[1] <= out[3] /\ out[3] <= in[5]
    /\ 0 <= out[2] /\ out[2] <= out[4] /\ out[4] <= in[6]

NearSquare(out) == Abs(RectWidth(out) - RectHeight(out)) <= 1

RECURSIVE NonEmptyFrames(_)
NonEmptyFrames(log) ==
    IF log = <<>> THEN <<>>
    ELSE IF log[1][2] THEN <<log[1][1]>> \o NonEmptyFrames(Tail(log))
         ELSE NonEmptyFrames(Tail(log))

\* C9: the detector runs on frame indices 0, 10, 20, ... in order and on no
\* other index; once 8 crops are appended no later frame is detected on; the
\* function returns normally only with exactly 8 crops, which are the first 8
\* sampled frames with a non-empty best-confidence crop, in frame order; with
\* fewer crops at the end of the scan it raises.
C9_ScanSamplesBreaksAndAsserts ==
    /\ \A k \in 1..Len(rd_log) :
          /\ rd_log[k][1] = 10 * (k - 1)
          /\ rd_log[k][1] < rd_num_frames
    /\ Len(rd_faces_to_save) <= 8
    /\ Len(rd_faces_to_save) = 8 =>
          /\ rd_log[Len(rd_log)] = <<rd_faces_to_save[8], TRUE>>
          /\ rd_pc \in {"after", "returned"}
    /\ rd_pc = "returned" =>
          /\ Len(rd_faces_to_save) = 8
          /\ Len(NonEmptyFrames(rd_log)) >= 8
          /\ rd_faces_to_save = SubSeq(NonEmptyFrames(rd_log), 1, 8)

\* A normal return after a scan in which one sampled frame gave no crop.
C9_Witness ==
    /\ rd_pc = "returned"
    /\ Len(rd_log) = 9
    /\ Len(rd_faces_to_save) = 8
    /\ rd_faces_to_save[8] = 80

(***************************************************************************)
(* Claims about get_dali_dataset (SpecDali)                                *)
(***************************************************************************)
\* C8: iterated once, the dataset of m videos has exactly m * 8 elements, and
\* the element at position p (from 0) carries labels[p div 8]: each label is
\* repeated 8 times contiguously in input order.
C8_LengthAndLabelStream ==
    /\ Len(dl_out) <= Len(dl_labels) * 8
    /\ \A p \in 1..Len(dl_out) :
          dl_out[p].label = dl_labels[((p - 1) \div 8) + 1]
    /\ dl_pc = "end" => Len(dl_out) = Len(dl_labels) * 8

\* The dataset of two videos labelled 0 and 1 has been iterated to its end.
C8_Witness ==
    /\ dl_pc = "end"
    /\ dl_labels = <<0, 1>>
    /\ Len(dl_out) = 16
    /\ dl_out[8].label = 0 /\ dl_out[9].label = 1

\* C10: every yielded pair joins a frame of video_file_paths[j] with labels[j]
\* for the same index j.
C10_FrameMeetsItsOwnLabel ==
    \A p \in 1..Len(dl_out) : dl_out[p].frame[1] = dl_out[p].label_index

(***************************************************************************)
(* Claims about the main flow (Spec)                                       *)
(***************************************************************************)
InSeq(x, q) == \E k \in 1..Len(q) : q[k] = x

GroupsInFile(file) == {file[key].group : key \in DOMAIN file}

ExtractionOver == pc \in {"split", "save_train", "save_val", "done", "aborted"}

FailedTasks == {t \in DOMAIN task : task[t].raised}

Occurrences(q, x) == Cardinality({k \in 1..Len(q) : q[k] = x})

SourceOf(record) ==
    CHOOSE f \in train_dir : f.chunk = record.group /\ f.name = record.video

\* C4: in the metadata file a success record is saved to, every crop of the
\* record is a key whose value has the label (FAKE = 1) of the crop's source
\* video, that video's chunk as group and that video's file name as video.
C4_EntriesMatchSourceVideo ==
    pc = "done" =>
        \A i \in 1..Len(faces) : \A k \in 1..Len(faces[i].faces) :
            LET file == IF InSeq(i, split.train_idx) THEN train_file ELSE val_file
                key == BaseName(faces[i].faces[k])
                src == SourceOf(faces[i])
            IN  /\ key \in DOMAIN file
                /\ file[key].label = (IF src.label = "FAKE" THEN 1 ELSE 0)
                /\ file[key].group = src.chunk
                /\ file[key].video = src.name

NextPath(w) == FacePaths(w.video_path)[w.idx + 1]

\* C5: in no interleaving of the pool are two workers at a write and a write,
\* or at a write and an existence check, of the same crop file.
C5_NoTwoWorkersOnOneCropFile ==
    \A t, u \in DOMAIN task :
        (t # u /\ task[t].pc = "write" /\ task[u].pc \in {"check", "write"})
            => NextPath(task[t]) # NextPath(task[u])

(***************************************************************************)
(* Claims about successive runs of save_faces_from_video (SpecSeq)         *)
(***************************************************************************)
\* C3 as stated: of two runs of the step on the same video, the second
\* performs no detector invocation and both return the same face paths.
C3_AsStated ==
    \A i, j \in 1..Len(sq_hist) :
        (i < j /\ sq_hist[i].video_path = sq_hist[j].video_path) =>
            /\ ~sq_hist[j].detected
            /\ sq_hist[j].result = sq_hist[i].result

\* C3 amended: of two runs of the step on the same video, when the first one
\* returned its face paths and left all 8 crop files on disk, the second
\* performs no detector invocation and returns the same face paths.
C3_SecondRunSkipsAfterSuccess ==
    \A i, j \in 1..Len(sq_hist) :
        (/\ i < j
         /\ sq_hist[i].video_path = sq_hist[j].video_path
         /\ sq_hist[i].result.type = "tuple"
         /\ sq_hist[i].complete) =>
            /\ ~sq_hist[j].detected
            /\ sq_hist[j].result = sq_hist[i].result
            /\ sq_hist[j].result.value[1] = FacePaths(sq_hist[j].video_path)

\* A video was extracted (the detector ran) and then run a second time.
C3_Witness ==
    /\ Len(sq_hist) >= 2
    /\ sq_hist[1].video_path = sq_hist[2].video_path
    /\ sq_hist[1].detected
    /\ sq_hist[1].result.type = "tuple"
    /\ ~sq_hist[2].detected
    /\ sq_hist[2].result = sq_hist[1].result

=============================================================================
